---- MODULE Spec2Model ----
(***************************************************************************)
(* Model of the "balls" physics toy (src/src/app.rs, src/src/main.rs).     *)
(*                                                                         *)
(* f32 values are modelled in fixed point: one unit is 1/Scale pixel, all  *)
(* products are truncated toward zero.  Vec indices are 0-based as in the  *)
(* source; the sequence `balls` is accessed at index i + 1.                *)
(* Option<T> is modelled as a sequence of length 0 (None) or 1 (Some).     *)
(* Each ball carries a label `id` that the program does not have: it only  *)
(* names the ball so that properties can speak about "the same ball".      *)
(***************************************************************************)
EXTENDS Integers, Sequences, FiniteSets, TLC

VARIABLES balls, active_ball, panicked, last, grabbed, spawned, events

vars == <<balls, active_ball, panicked, last, grabbed, spawned, events>>

(* ---------------------------------------------------------------------- *)
(* Fixed-point arithmetic                                                  *)
(* ---------------------------------------------------------------------- *)
Scale == 20

Px(n) == n * Scale

TruncDiv(a, b) == IF a >= 0 THEN a \div b ELSE -((-a) \div b)

Mul(a, b) == TruncDiv(a * b, Scale)

Max(a, b) == IF a >= b THEN a ELSE b

RECURSIVE ISqrtIter(_, _, _)
ISqrtIter(n, lo, hi) ==
    IF lo >= hi THEN lo
    ELSE LET mid == (lo + hi + 1) \div 2
         IN  IF mid * mid <= n THEN ISqrtIter(n, mid, hi)
                               ELSE ISqrtIter(n, lo, mid - 1)

Sqrt(n) == ISqrtIter(n, 0, IF n < 46340 THEN n ELSE 46340)

(* ---------------------------------------------------------------------- *)
(* Program constants                                                       *)
(* ---------------------------------------------------------------------- *)
WindowWidth == 800
WindowHeight == 600
width == Px(WindowWidth)
height == Px(WindowHeight)

InitialCount == 10
MinRadius == 10
MaxRadius == 50

gravity == Scale \div 2                 \* 0.5
bounce_amount == Scale \div 2           \* 0.5
bounce == Scale \div 20                 \* 0.05
jump == (6 * Scale) \div 10             \* 0.6
bounce_mass_falloff == Scale \div 20    \* 0.05
One == Scale                            \* 1.0

(* ---------------------------------------------------------------------- *)
(* Bounds of the model                                                     *)
(* ---------------------------------------------------------------------- *)
MaxBalls == 11
MaxEvents == 4

(* Values the random generator may return for (radius, x, y, color).       *)
RandBalls ==
    { [radius |-> Px(40), x |-> Px(100), y |-> Px(100), color |-> "red"],
      [radius |-> Px(20), x |-> Px(110), y |-> Px(100), color |-> "blue"] }

(* Pointer positions and pointer deltas delivered by the window system.    *)
Points ==
    { [x |-> Px(110), y |-> Px(100)],
      [x |-> Px(60),  y |-> Px(100)],
      [x |-> Px(5),   y |-> Px(300)] }

Deltas == { [x |-> Px(3), y |-> -Px(2)] }

(* ---------------------------------------------------------------------- *)
(* Option                                                                  *)
(* ---------------------------------------------------------------------- *)
None == << >>
Some(v) == << v >>
IsSome(o) == Len(o) = 1
Unwrap(o) == o[1]

(* ---------------------------------------------------------------------- *)
(* Ball                                                                    *)
(* ---------------------------------------------------------------------- *)
Ball_new(x, y, radius, color) ==
    [ id       |-> 0,
      point    |-> [x |-> x, y |-> y],
      radius   |-> radius,
      velocity |-> [x |-> 0, y |-> 0],
      color    |-> color ]

(* The set of balls new_random may return: radius in [10, 50), the centre  *)
(* at least one radius away from every window edge.                        *)
new_random ==
    { Ball_new(c.x, c.y, c.radius, c.color) :
        c \in { d \in RandBalls :
                  /\ Px(MinRadius) <= d.radius /\ d.radius < Px(MaxRadius)
                  /\ d.radius <= d.x /\ d.x < width - d.radius
                  /\ d.radius <= d.y /\ d.y < height - d.radius } }

(* sqrt is monotone, so dist <= s is decided on the squares.               *)
collides(self, other) ==
    LET dx == self.point.x - other.point.x
        dy == self.point.y - other.point.y
        s  == self.radius + other.radius
    IN  dx * dx + dy * dy <= s * s

collides_point_open(self, point) ==
    LET dx == self.point.x - point.x
        dy == self.point.y - point.y
    IN  dx * dx + dy * dy < self.radius * self.radius

collides_point(self, point) ==
    LET dx == self.point.x - point.x
        dy == self.point.y - point.y
    IN  dx * dx + dy * dy <= self.radius * self.radius

get_bounce_amount(self) ==
    TruncDiv(One * One, Max(Mul(self.radius, bounce_mass_falloff), One))

move_from_attract(self, other) ==
    LET dx    == other.point.x - self.point.x
        dy    == other.point.y - self.point.y
        dist  == Sqrt(dx * dx + dy * dy)
        force == self.radius + other.radius - dist
        x     == IF dist = 0 THEN force ELSE TruncDiv(dx * force, dist)
        y     == IF dist = 0 THEN 0 ELSE TruncDiv(dy * force, dist)
    IN  [self EXCEPT
           !.velocity = [x |-> self.velocity.x + Mul(Mul(x, bounce), get_bounce_amount(self)),
                         y |-> self.velocity.y + Mul(Mul(y, bounce), get_bounce_amount(self))],
           !.point    = [x |-> self.point.x + Mul(x, jump),
                         y |-> self.point.y + Mul(y, jump)]]

move_from_squash(self, other) ==
    LET dx    == self.point.x - other.point.x
        dy    == self.point.y - other.point.y
        dist  == Sqrt(dx * dx + dy * dy)
        force == self.radius + other.radius - dist
    IN  [self EXCEPT !.radius = self.radius - Mul(force, jump)]

(* angle = atan2(dy, dx); cos(angle) = dx / dist and sin(angle) = dy / dist *)
(* when dist > 0, and atan2(0, 0) = 0 gives cos = 1, sin = 0.               *)
move_from(self, other) ==
    LET dx    == self.point.x - other.point.x
        dy    == self.point.y - other.point.y
        dist  == Sqrt(dx * dx + dy * dy)
        force == self.radius + other.radius - dist
        x     == IF dist = 0 THEN force ELSE TruncDiv(dx * force, dist)
        y     == IF dist = 0 THEN 0 ELSE TruncDiv(dy * force, dist)
    IN  [self EXCEPT
           !.velocity = [x |-> self.velocity.x + Mul(Mul(x, bounce), get_bounce_amount(self)),
                         y |-> self.velocity.y + Mul(Mul(y, bounce), get_bounce_amount(self))],
           !.point    = [x |-> self.point.x + Mul(x, jump),
                         y |-> self.point.y + Mul(y, jump)]]

(* ---------------------------------------------------------------------- *)
(* App                                                                     *)
(* ---------------------------------------------------------------------- *)
App(bs, ab) == [balls |-> bs, active_ball |-> ab, panicked |-> FALSE]

(* An index out of range aborts the program; the state is left as it was.  *)
Panic(bs, ab) == [balls |-> bs, active_ball |-> ab, panicked |-> TRUE]

(* Vec::sort_by is a stable sort; the comparator orders larger radii first. *)
RECURSIVE StableInsert(_, _)
StableInsert(sorted, b) ==
    IF sorted = << >> THEN << b >>
    ELSE IF sorted[Len(sorted)].radius >= b.radius
         THEN Append(sorted, b)
         ELSE Append(StableInsert(SubSeq(sorted, 1, Len(sorted) - 1), b),
                     sorted[Len(sorted)])

RECURSIVE SortFrom(_, _, _)
SortFrom(sorted, bs, k) ==
    IF k > Len(bs) THEN sorted
    ELSE SortFrom(StableInsert(sorted, bs[k]), bs, k + 1)

sort_balls_by_size(bs) == SortFrom(<< >>, bs, 1)

(* Labels: a ball of a fresh list is labelled by its place in the list, a  *)
(* ball added later by the least label no ball of the list carries.        *)
Labelled(bs) == [k \in 1..Len(bs) |-> [bs[k] EXCEPT !.id = k]]

Ids(bs) == { bs[k].id : k \in 1..Len(bs) }

FreeId(bs) == CHOOSE n \in 1..(Len(bs) + 1) :
                 /\ n \notin Ids(bs)
                 /\ \A m \in 1..(Len(bs) + 1) : m \notin Ids(bs) => n <= m

(* The states App::new may return, one per outcome of the random draws.    *)
App_new ==
    { App(Labelled(sort_balls_by_size(f)), None) :
        f \in [1..InitialCount -> new_random] }

reset_keep_active(ab, fresh) == [fresh EXCEPT !.active_ball = ab]

reset(ab, fresh) == fresh

move_active_ball_centered(bs, ab, x, y, vx, vy) ==
    IF IsSome(ab)
    THEN LET i == Unwrap(ab).i
         IN  IF i >= Len(bs)
             THEN Panic(bs, ab)
             ELSE App([bs EXCEPT ![i + 1].point    = [x |-> x, y |-> y],
                                 ![i + 1].velocity = [x |-> vx, y |-> vy]],
                      ab)
    ELSE App(bs, ab)

move_active_ball(bs, ab, x, y, vx, vy) ==
    IF IsSome(ab)
    THEN LET i      == Unwrap(ab).i
             offset == Unwrap(ab).offset
         IN  IF i >= Len(bs)
             THEN Panic(bs, ab)
             ELSE App([bs EXCEPT ![i + 1].point    = [x |-> x - offset.x, y |-> y - offset.y],
                                 ![i + 1].velocity = [x |-> vx, y |-> vy]],
                      ab)
    ELSE App(bs, ab)

is_active_ball(ab, index) == IsSome(ab) /\ Unwrap(ab).i = index

add_ball_unsorted(bs, ball) == Append(bs, ball)

add_ball(bs, ball) == sort_balls_by_size(Append(bs, ball))

(* Rust evaluates an argument once, before the call.  Then(Op, e) applies  *)
(* Op to the value of e, so that e is computed a single time however often *)
(* Op reads its parameter.                                                 *)
Then(Op(_), e) == CHOOSE out \in { Op(v) : v \in { e } } : TRUE

(* ---------------------------------------------------------------------- *)
(* EventHandler::update                                                    *)
(* ---------------------------------------------------------------------- *)
apply_gravity_nonstrict(bs, ab) ==
    [k \in 1..Len(bs) |->
        IF is_active_ball(ab, k - 1) THEN bs[k]
        ELSE IF bs[k].point.y + bs[k].radius <= height
             THEN [bs[k] EXCEPT !.velocity.y = @ + gravity]
             ELSE bs[k]]

apply_gravity(bs, ab) ==
    [k \in 1..Len(bs) |->
        IF is_active_ball(ab, k - 1) THEN bs[k]
        ELSE IF bs[k].point.y + bs[k].radius < height
             THEN [bs[k] EXCEPT !.velocity.y = @ + gravity]
             ELSE bs[k]]

integrate(bs, ab) ==
    [k \in 1..Len(bs) |->
        IF is_active_ball(ab, k - 1) THEN bs[k]
        ELSE [bs[k] EXCEPT !.point = [x |-> bs[k].point.x + bs[k].velocity.x,
                                      y |-> bs[k].point.y + bs[k].velocity.y]]]

collide_pair(bs, i, j) ==
    IF i = j THEN bs
    ELSE IF collides(bs[i + 1], bs[j + 1])
         THEN [bs EXCEPT ![i + 1] = move_from(bs[i + 1], bs[j + 1])]
         ELSE bs

RECURSIVE collide_inner(_, _, _)
collide_inner(bs, i, j) ==
    IF j >= Len(bs) THEN bs
    ELSE Then(LAMBDA v : collide_inner(v, i, j + 1), collide_pair(bs, i, j))

RECURSIVE collide_outer(_, _, _)
collide_outer(bs, ab, i) ==
    IF i >= Len(bs) THEN bs
    ELSE Then(LAMBDA v : collide_outer(v, ab, i + 1),
              IF is_active_ball(ab, i) THEN bs ELSE collide_inner(bs, i, 0))

collide_pair_neither(bs, ab, i, j) ==
    IF i = j \/ is_active_ball(ab, j) THEN bs
    ELSE IF collides(bs[i + 1], bs[j + 1])
         THEN [bs EXCEPT ![i + 1] = move_from(bs[i + 1], bs[j + 1])]
         ELSE bs

RECURSIVE collide_inner_neither(_, _, _, _)
collide_inner_neither(bs, ab, i, j) ==
    IF j >= Len(bs) THEN bs
    ELSE Then(LAMBDA v : collide_inner_neither(v, ab, i, j + 1),
              collide_pair_neither(bs, ab, i, j))

RECURSIVE collide_outer_neither(_, _, _)
collide_outer_neither(bs, ab, i) ==
    IF i >= Len(bs) THEN bs
    ELSE Then(LAMBDA v : collide_outer_neither(v, ab, i + 1),
              IF is_active_ball(ab, i) THEN bs ELSE collide_inner_neither(bs, ab, i, 0))

resolve_collisions_neither(bs, ab) == Then(LAMBDA v : collide_outer_neither(v, ab, 0), bs)

resolve_collisions(bs, ab) == Then(LAMBDA v : collide_outer(v, ab, 0), bs)

bounce_left_no_clamp(ball) ==
    IF ball.point.x - ball.radius < 0
    THEN [ball EXCEPT !.velocity.x = Mul(@, Mul(-bounce_amount, get_bounce_amount(ball)))]
    ELSE ball

bounce_left(ball) ==
    IF ball.point.x - ball.radius < 0
    THEN [ball EXCEPT !.point.x = ball.radius,
                      !.velocity.x = Mul(@, Mul(-bounce_amount, get_bounce_amount(ball)))]
    ELSE ball

bounce_right(ball) ==
    IF ball.point.x + ball.radius >= width
    THEN [ball EXCEPT !.point.x = width - ball.radius,
                      !.velocity.x = Mul(@, Mul(-bounce_amount, get_bounce_amount(ball)))]
    ELSE ball

bounce_floor_keep_velocity(ball) ==
    IF ball.point.y + ball.radius >= height
    THEN [ball EXCEPT !.point.y = height - ball.radius]
    ELSE ball

bounce_floor(ball) ==
    IF ball.point.y + ball.radius >= height
    THEN [ball EXCEPT !.point.y = height - ball.radius,
                      !.velocity.y = Mul(@, Mul(-bounce_amount, get_bounce_amount(ball)))]
    ELSE ball

after_bounds(ball) ==
    Then(bounce_floor, Then(bounce_right, Then(bounce_left, ball)))

resolve_bounds(bs) ==
    Then(LAMBDA v : [k \in 1..Len(v) |-> after_bounds(v[k])], bs)

update(bs, ab) ==
    App(resolve_bounds(resolve_collisions(Then(LAMBDA v : integrate(v, ab),
                                               apply_gravity(bs, ab)), ab)), ab)

(* ---------------------------------------------------------------------- *)
(* Pointer and key handlers                                                *)
(* ---------------------------------------------------------------------- *)
mouse_motion_event(bs, ab, x, y, dx, dy) == move_active_ball(bs, ab, x, y, dx, dy)

(* The canvas receives one circle per ball, in list order.                 *)
draw(bs) ==
    [k \in 1..Len(bs) |->
        [point |-> bs[k].point, radius |-> bs[k].radius, color |-> bs[k].color]]

mouse_button_down_event_forward(bs, ab, x, y) ==
    IF IsSome(ab) THEN App(bs, ab)
    ELSE LET hits == { i \in 0..(Len(bs) - 1) :
                         collides_point(bs[i + 1], [x |-> x, y |-> y]) }
         IN  IF hits = {} THEN App(bs, ab)
             ELSE LET i    == CHOOSE h \in hits : \A g \in hits : h <= g
                      ball == bs[i + 1]
                  IN  move_active_ball(bs,
                                       Some([i |-> i,
                                             offset |-> [x |-> x - ball.point.x,
                                                         y |-> y - ball.point.y]]),
                                       x, y, 0, 0)

(* The reversed loop with break grabs the largest index whose ball         *)
(* contains the point.                                                     *)
mouse_button_down_event(bs, ab, x, y) ==
    IF IsSome(ab) THEN App(bs, ab)
    ELSE LET hits == { i \in 0..(Len(bs) - 1) :
                         collides_point(bs[i + 1], [x |-> x, y |-> y]) }
         IN  IF hits = {} THEN App(bs, ab)
             ELSE LET i    == CHOOSE h \in hits : \A g \in hits : g <= h
                      ball == bs[i + 1]
                  IN  move_active_ball(bs,
                                       Some([i |-> i,
                                             offset |-> [x |-> x - ball.point.x,
                                                         y |-> y - ball.point.y]]),
                                       x, y, 0, 0)

mouse_button_up_event_keep(bs, ab) == App(bs, ab)

mouse_button_up_event(bs, ab) == App(bs, None)

key_down_event_R(bs, ab, fresh) == reset(ab, fresh)

key_down_event_Space(bs, ab, ball) == App(add_ball(bs, ball), ab)

Remove(bs, i) == SubSeq(bs, 1, i) \o SubSeq(bs, i + 2, Len(bs))

key_down_event_X(bs, ab) ==
    IF IsSome(ab)
    THEN LET i == Unwrap(ab).i
         IN  IF i >= Len(bs) THEN Panic(bs, ab)
             ELSE App(Remove(bs, i), ab)
    ELSE App(bs, ab)

(* State machine: the event loop delivers one event at a time.  `events`   *)
(* counts the events handled since the App was constructed or reset.       *)
(* ---------------------------------------------------------------------- *)
(* `last` records the event handled last, with its pointer position, and  *)
(* whether a ball was active and how many balls there were before it.      *)
Event(ev, x, y) ==
    [ev |-> ev, x |-> x, y |-> y,
     dragging |-> IsSome(active_ball), len |-> Len(balls)]

NoSpawn == [id |-> 0, len |-> 0, stage |-> 0]

Result(r) ==
    /\ balls' = r.balls
    /\ active_ball' = r.active_ball
    /\ panicked' = r.panicked

ActiveId(bs, ab) == bs[Unwrap(ab).i + 1].id

Running == ~panicked /\ events < MaxEvents

Init ==
    /\ \E fresh \in App_new :
          /\ balls = fresh.balls
          /\ active_ball = fresh.active_ball
          /\ panicked = fresh.panicked
    /\ last = [ev |-> "new", x |-> 0, y |-> 0, dragging |-> FALSE, len |-> 0]
    /\ grabbed = 0
    /\ spawned = NoSpawn
    /\ events = 0

Step ==
    /\ Running
    /\ Result(update(balls, active_ball))
    /\ last' = Event("step", 0, 0)
    /\ spawned' = NoSpawn
    /\ events' = events + 1
    /\ UNCHANGED grabbed

PointerDown ==
    /\ Running
    /\ \E p \in Points :
          LET r    == mouse_button_down_event(balls, active_ball, p.x, p.y)
              took == active_ball = None /\ IsSome(r.active_ball)
          IN  /\ Result(r)
              /\ last' = Event("pointer_down", p.x, p.y)
              /\ grabbed' = IF took THEN ActiveId(r.balls, r.active_ball) ELSE grabbed
              /\ spawned' = IF /\ spawned.stage = 1
                               /\ took
                               /\ ActiveId(r.balls, r.active_ball) = spawned.id
                            THEN [spawned EXCEPT !.stage = 2]
                            ELSE NoSpawn
    /\ events' = events + 1

PointerMove ==
    /\ Running
    /\ \E p \in Points, d \in Deltas :
          /\ Result(mouse_motion_event(balls, active_ball, p.x, p.y, d.x, d.y))
          /\ last' = Event("pointer_move", p.x, p.y)
    /\ spawned' = NoSpawn
    /\ events' = events + 1
    /\ UNCHANGED grabbed

PointerUp ==
    /\ Running
    /\ Result(mouse_button_up_event(balls, active_ball))
    /\ last' = Event("pointer_up", 0, 0)
    /\ grabbed' = 0
    /\ spawned' = NoSpawn
    /\ events' = events + 1

KeyR ==
    /\ ~panicked
    /\ \E fresh \in App_new : Result(key_down_event_R(balls, active_ball, fresh))
    /\ last' = Event("key_r", 0, 0)
    /\ grabbed' = 0
    /\ spawned' = NoSpawn
    /\ events' = 0

KeySpace ==
    /\ Running
    /\ Len(balls) < MaxBalls
    /\ \E b \in new_random :
          /\ Result(key_down_event_Space(balls, active_ball,
                                         [b EXCEPT !.id = FreeId(balls)]))
          /\ spawned' = [id |-> FreeId(balls), len |-> Len(balls), stage |-> 1]
    /\ last' = Event("key_space", 0, 0)
    /\ events' = events + 1
    /\ UNCHANGED grabbed

KeyX ==
    /\ Running
    /\ LET r == key_down_event_X(balls, active_ball)
       IN  /\ Result(r)
           /\ grabbed' = IF r.panicked THEN grabbed ELSE 0
           /\ spawned' = IF spawned.stage = 2 /\ ~r.panicked
                         THEN [spawned EXCEPT !.stage = 3]
                         ELSE NoSpawn
    /\ last' = Event("key_x", 0, 0)
    /\ events' = events + 1

Next ==
    \/ Step
    \/ PointerDown
    \/ PointerMove
    \/ PointerUp
    \/ KeyR
    \/ KeySpace
    \/ KeyX

Spec == Init /\ [][Next]_vars

TypeOK ==
    /\ panicked \in BOOLEAN
    /\ Len(active_ball) <= 1
    /\ events \in 0..MaxEvents

(* ---------------------------------------------------------------------- *)
(* Physics scenes.  move_active_ball writes any position and any velocity  *)
(* into the dragged ball and key(X) removes balls, so by grabbing,         *)
(* dragging, releasing and deleting the program reaches every list of      *)
(* balls (sorted by radius) with any centres and velocities.  PhysSpec     *)
(* starts from a few such lists and lets the frame tick run.               *)
(* ---------------------------------------------------------------------- *)
Placed(x, y, radius, vx, vy) ==
    [Ball_new(x, y, radius, "white") EXCEPT !.velocity = [x |-> vx, y |-> vy]]

Scene(bs, ab) == [balls |-> Labelled(sort_balls_by_size(bs)), active_ball |-> ab]

Held(i) == Some([i |-> i, offset |-> [x |-> 0, y |-> 0]])

(* Two balls of radius 10 whose centres are 15 apart on a horizontal line. *)
PairScenes ==
    { Scene(<< Placed(x0, y0, Px(10), 0, 0), Placed(x0 + Px(15), y0, Px(10), 0, 0) >>, None) :
        x0 \in { 0, Px(10), Px(100), Px(773) },
        y0 \in { 0, Px(100), height - Px(10) } }

(* One ball near the floor, alone or with a second ball far away.          *)
FloorScenes ==
    { Scene(<< Placed(Px(100), height - r + dy, r, 0, vy) >> \o far, None) :
        r   \in { Px(10), Px(40) },
        dy  \in { -Px(100), -1, 0, Px(1) },
        vy  \in { 0, Px(10) },
        far \in { << >>, << Placed(Px(400), Px(100), Px(20), 0, 0) >> } }

(* A ball of radius 20 at (300,300), held or not, overlapped by a ball of  *)
(* radius 10; a third ball overlaps neither.                               *)
DragScenes ==
    { Scene(<< Placed(Px(300), Px(300), Px(20), 0, 0),
               Placed(Px(300) + dx, Px(300), Px(10), vx, 0) >> \o far, ab) :
        dx  \in { Px(20), Px(30), -Px(25) },
        vx  \in { 0, Px(3) },
        far \in { << >>, << Placed(Px(600), Px(100), Px(10), 0, 0) >> },
        ab  \in { None, Held(0) } }

(* Balls at rest on the floor: side by side and just touching, or apart.   *)
RestScenes ==
    { Scene(<< Placed(Px(100), height - Px(10), Px(10), 0, 0),
               Placed(Px(100) + dx, height - Px(10), Px(10), 0, 0) >>, None) :
        dx \in { Px(20), Px(15), Px(40) } }

(* A ball on the floor with a second ball straight above it: touching,     *)
(* overlapping or falling onto it.                                         *)
StackScenes ==
    { Scene(<< Placed(Px(100), height - r1, r1, 0, 0),
               Placed(Px(100), height - 2 * r1 - r2 + dy, r2, 0, 0) >>, None) :
        r1 \in { Px(10), Px(20), Px(40) },
        r2 \in { Px(10), Px(20) },
        dy \in { 0, Px(5), -Px(20) } }

(* Scenes whose balls stay on one vertical line or do not move at all.     *)
StillScenes ==
    StackScenes \cup
    { s \in RestScenes : s.balls[2].point.x - s.balls[1].point.x = Px(20) }

Scenes == PairScenes \cup FloorScenes \cup DragScenes \cup RestScenes \cup StackScenes

PhysInit ==
    /\ \E s \in Scenes :
          /\ balls = s.balls
          /\ active_ball = s.active_ball
          /\ grabbed = IF IsSome(s.active_ball) THEN ActiveId(s.balls, s.active_ball) ELSE 0
    /\ panicked = FALSE
    /\ last = [ev |-> "new", x |-> 0, y |-> 0, dragging |-> FALSE, len |-> 0]
    /\ spawned = NoSpawn
    /\ events = 0

PhysSpec == PhysInit /\ [][Step]_vars

(* ---------------------------------------------------------------------- *)
(* Frames without input: event::run calls update once per frame for as     *)
(* long as the program runs, so the tick is weakly fair.  LiveSpec starts  *)
(* from the scenes of balls at rest on the floor and of stacked balls.     *)
(* ---------------------------------------------------------------------- *)
Tick ==
    /\ ~panicked
    /\ Result(update(balls, active_ball))
    /\ UNCHANGED <<last, grabbed, spawned, events>>

LiveInit ==
    /\ PhysInit
    /\ [balls |-> balls, active_ball |-> active_ball] \in StillScenes

LiveSpec == LiveInit /\ [][Tick]_vars /\ WF_vars(Tick)

(* ---------------------------------------------------------------------- *)
(* Properties                                                              *)
(* ---------------------------------------------------------------------- *)
Handled(ev) == last'.ev = ev /\ events' # events

ActiveIndex == Unwrap(active_ball).i

Inside(p, b) ==
    (p.x - b.point.x) * (p.x - b.point.x) + (p.y - b.point.y) * (p.y - b.point.y)
        <= b.radius * b.radius

InBounds(b) ==
    /\ b.radius <= b.point.x
    /\ b.point.x <= width - b.radius
    /\ b.point.y <= height - b.radius

(* C1: whenever a ball is active, key(X) removes exactly the ball at the   *)
(* active index (the list gets one shorter) and leaves active_ball None.   *)
C1_KeyXDeletesAndIdles ==
    [][(Handled("key_x") /\ IsSome(active_ball)) =>
          /\ ~panicked'
          /\ ActiveIndex < Len(balls)
          /\ balls' = Remove(balls, ActiveIndex)
          /\ Len(balls') = Len(balls) - 1
          /\ active_ball' = None]_vars

(* C2: in every reachable state an active index is below balls.len().      *)
C2_ActiveIndexInRange ==
    IsSome(active_ball) => ActiveIndex < Len(balls)

(* C3: every handler completes without failing, in any order of events.    *)
C3_HandlersTotal == ~panicked

(* C4: from the pointer_down that grabbed a ball until pointer_up, key(X)  *)
(* or key(R), the active ball is the ball that was grabbed; at most one    *)
(* ball is active.                                                         *)
C4_ActiveIsGrabbed ==
    /\ Len(active_ball) <= 1
    /\ grabbed # 0 =>
          /\ IsSome(active_ball)
          /\ ActiveIndex < Len(balls)
          /\ balls[ActiveIndex + 1].id = grabbed

(* C5: step leaves position and velocity of the active ball as they were.  *)
C5_StepLeavesActive ==
    [][(Handled("step") /\ IsSome(active_ball) /\ ActiveIndex < Len(balls)) =>
          /\ balls'[ActiveIndex + 1].point = balls[ActiveIndex + 1].point
          /\ balls'[ActiveIndex + 1].velocity = balls[ActiveIndex + 1].velocity]_vars

(* C6: after any step every ball, active or not, lies between the side     *)
(* walls and not below the floor.                                          *)
C6_InBoundsAfterStep ==
    last.ev = "step" => \A k \in 1..Len(balls) : InBounds(balls[k])

C6_Witness ==
    /\ last.ev = "step"
    /\ IsSome(active_ball)
    /\ ActiveIndex < Len(balls)
    /\ balls[ActiveIndex + 1].point.x = balls[ActiveIndex + 1].radius
    /\ \E k \in 1..Len(balls) : ~is_active_ball(active_ball, k - 1)

(* C7: pointer_up leaves active_ball None from any state, leaves the ball  *)
(* list as it was, and a second pointer_up changes nothing more.           *)
C7_PointerUpIdles ==
    [][Handled("pointer_up") =>
          /\ ~panicked'
          /\ active_ball' = None
          /\ balls' = balls
          /\ mouse_button_up_event(balls', active_ball') = App(balls', active_ball')]_vars

C7_Witness ==
    /\ last.ev = "pointer_up"
    /\ last.dragging
    /\ active_ball = None

(* C8: after key(R) there are 10 balls and no active ball, whatever the    *)
(* number of balls and the drag state before.                              *)
C8_ResetState ==
    last.ev = "key_r" => Len(balls) = 10 /\ active_ball = None

C8_Witness ==
    /\ last.ev = "key_r"
    /\ last.dragging
    /\ last.len # 10
    /\ Len(balls) = 10

(* C9: key(Space) makes the list one longer; when the spawned ball is then *)
(* grabbed by pointer_down and key(X) follows, the list has its pre-spawn  *)
(* length again, the spawned ball is gone and active_ball is None.         *)
C9_SpawnGrabDelete ==
    /\ last.ev = "key_space" => Len(balls) = last.len + 1
    /\ spawned.stage = 3 =>
          /\ Len(balls) = spawned.len
          /\ spawned.id \notin Ids(balls)
          /\ active_ball = None

(* C10: pointer_down from Idle at p keeps Idle when no ball contains p and *)
(* otherwise makes active a ball whose circle contains p.                  *)
C10_HitTest ==
    [][(Handled("pointer_down") /\ active_ball = None) =>
          LET p == [x |-> last'.x, y |-> last'.y]
          IN  IF \A k \in 1..Len(balls) : ~Inside(p, balls[k])
              THEN active_ball' = None
              ELSE /\ IsSome(active_ball')
                   /\ Unwrap(active_ball').i < Len(balls')
                   /\ Inside(p, balls'[Unwrap(active_ball').i + 1])]_vars

C10_Witness ==
    /\ last.ev = "pointer_down"
    /\ ~last.dragging
    /\ IsSome(active_ball)
    /\ LET b == balls[ActiveIndex + 1]
           p == [x |-> last.x, y |-> last.y]
       IN  (p.x - b.point.x) * (p.x - b.point.x) + (p.y - b.point.y) * (p.y - b.point.y)
              = b.radius * b.radius

(* C11: when several balls contain the pointer at pointer_down from Idle,  *)
(* the ball grabbed has the least radius among the balls containing the    *)
(* point, and it is the last of them in the order in which draw paints.    *)
C11_SmallestOnTop ==
    [][(Handled("pointer_down") /\ active_ball = None /\ IsSome(active_ball')) =>
          LET p == [x |-> last'.x, y |-> last'.y]
              i == Unwrap(active_ball').i
          IN  /\ i < Len(balls)
              /\ \A k \in 1..Len(balls) :
                    Inside(p, balls[k]) =>
                       /\ balls[i + 1].radius <= balls[k].radius
                       /\ k <= i + 1
              /\ \A k \in 1..Len(draw(balls)) :
                    Inside(p, draw(balls)[k]) => k <= i + 1]_vars

C11_Witness ==
    /\ last.ev = "pointer_down"
    /\ ~last.dragging
    /\ IsSome(active_ball)
    /\ ActiveIndex < Len(balls)
    /\ \E k \in 1..Len(balls) :
          /\ Inside([x |-> last.x, y |-> last.y], balls[k])
          /\ balls[k].radius > balls[ActiveIndex + 1].radius

(* C12: every ball has a positive radius, and as long as a ball is in the  *)
(* list (reset replaces every ball) its radius stays what it was.         *)
C12_RadiusFixed ==
    [][/\ \A k \in 1..Len(balls) : balls[k].radius > 0
       /\ \A k \in 1..Len(balls') : balls'[k].radius > 0
       /\ last'.ev # "key_r" =>
             \A j \in 1..Len(balls), k \in 1..Len(balls') :
                balls[j].id = balls'[k].id => balls[j].radius = balls'[k].radius]_vars

C12_Witness ==
    /\ last.ev = "step"
    /\ events = 1
    /\ \E k \in 1..Len(balls) : balls[k].velocity.x # 0

C14_PointerMoveEffect ==
    [][Handled("pointer_move") =>
          IF ~IsSome(active_ball)
          THEN balls' = balls /\ active_ball' = active_ball /\ ~panicked'
          ELSE LET i      == ActiveIndex
                   offset == Unwrap(active_ball).offset
               IN  /\ ~panicked'
                   /\ i < Len(balls)
                   /\ Len(balls') = Len(balls)
                   /\ active_ball' = active_ball
                   /\ balls'[i + 1].point = [x |-> last'.x - offset.x,
                                             y |-> last'.y - offset.y]
                   /\ balls'[i + 1].velocity \in Deltas
                   /\ \A k \in 1..Len(balls) : k # i + 1 => balls'[k] = balls[k]]_vars

(* Two balls of radius 10 at rest, none active, the second 15 to the right *)
(* of the first, which is at (x0, y0).                                     *)
PairAt(x0, y0) ==
    /\ Len(balls) = 2
    /\ active_ball = None
    /\ \A k \in 1..2 : balls[k].radius = Px(10) /\ balls[k].velocity = [x |-> 0, y |-> 0]
    /\ balls[1].point = [x |-> x0, y |-> y0]
    /\ balls[2].point = [x |-> x0 + Px(15), y |-> y0]

Dist2(a, b) ==
    (a.point.x - b.point.x) * (a.point.x - b.point.x)
        + (a.point.y - b.point.y) * (a.point.y - b.point.y)

PushedApart ==
    /\ Dist2(balls'[1], balls'[2]) > Px(15) * Px(15)
    /\ balls'[1].point.x <= balls[1].point.x
    /\ balls'[2].point.x > balls[2].point.x

(* C15 as stated: from centres (0,0) and (15,0), radius 10, at rest, one   *)
(* step leaves the centres more than 15 apart, the first ball not moved to *)
(* the right and the second moved to the right.                            *)
C15_OriginScenario ==
    [][(Handled("step") /\ PairAt(0, 0)) => PushedApart]_vars

(* C15 amended: the same for centres (x0, y0) and (x0 + 15, y0) when both  *)
(* balls are clear of the side walls: x0 >= 10 and x0 + 27 <= width.       *)
C15_ClearOfWalls ==
    [][(/\ Handled("step")
        /\ Len(balls) = 2
        /\ PairAt(balls[1].point.x, balls[1].point.y)
        /\ balls[1].point.x >= Px(10)
        /\ balls[1].point.x + Px(27) <= width) => PushedApart]_vars

C15_Witness ==
    /\ last.ev = "step"
    /\ events = 1
    /\ Len(balls) = 2
    /\ active_ball = None
    /\ \A k \in 1..2 : balls[k].radius = Px(10)
    /\ balls[1].point.y = balls[2].point.y
    /\ balls[1].velocity.x < 0
    /\ balls[2].velocity.x > 0
    /\ balls[2].point.x - balls[1].point.x > Px(15)
    /\ balls[1].point.x > Px(10)

(* Ball k is not the active one.                                           *)
NotActive(k) == ~(IsSome(active_ball) /\ ActiveIndex = k - 1)

(* No other ball is within 100 of touching ball k.                         *)
Isolated(k) ==
    \A j \in 1..Len(balls) :
       j # k =>
          Dist2(balls[k], balls[j]) >
             (balls[k].radius + balls[j].radius + Px(100))
                * (balls[k].radius + balls[j].radius + Px(100))

(* C16: a non-active ball with position.y = height - radius + 1 and        *)
(* velocity.y = 10 that no other ball overlaps has, after one step,        *)
(* position.y = height - radius and velocity.y < 0.                        *)
C16_WallBounce ==
    [][Handled("step") =>
          \A k \in 1..Len(balls) :
             (/\ NotActive(k)
              /\ Isolated(k)
              /\ balls[k].point.y = height - balls[k].radius + Px(1)
              /\ balls[k].velocity.y = Px(10)) =>
                /\ balls'[k].point.y = height - balls[k].radius
                /\ balls'[k].velocity.y < 0]_vars

C16_Witness ==
    /\ last.ev = "step"
    /\ events = 1
    /\ \E k \in 1..Len(balls) :
          /\ Isolated(k)
          /\ balls[k].radius = Px(40)
          /\ balls[k].point.y = height - balls[k].radius
          /\ balls[k].velocity.y < 0

(* Ball k after gravity and integration alone.                             *)
Free(k) ==
    LET b == balls[k]
        g == IF b.point.y + b.radius < height THEN Px(1) \div 2 ELSE 0
    IN  [b EXCEPT !.velocity = [x |-> b.velocity.x, y |-> b.velocity.y + g],
                  !.point    = [x |-> b.point.x + b.velocity.x,
                                y |-> b.point.y + b.velocity.y + g]]

ClearOfWalls(b) ==
    /\ b.point.x - b.radius >= Px(10)
    /\ b.point.x + b.radius <= width - Px(10)
    /\ b.point.y + b.radius <= height - Px(10)

(* The active ball a overlaps ball k after integration and every other     *)
(* ball is far from k.                                                     *)
OnlyOverlapsActive(k, a) ==
    /\ k # a
    /\ Dist2(Free(k), balls[a]) <=
          (balls[k].radius + balls[a].radius) * (balls[k].radius + balls[a].radius)
    /\ \A j \in 1..Len(balls) :
          (j # k /\ j # a) =>
             Dist2(balls[k], balls[j]) >
                (balls[k].radius + balls[j].radius + Px(100))
                   * (balls[k].radius + balls[j].radius + Px(100))
    /\ ClearOfWalls(balls[k])

Dragging == IsSome(active_ball) /\ ActiveIndex < Len(balls)

(* C17 as stated: a non-active ball whose only overlap is with the dragged *)
(* ball is not repositioned and gets no velocity impulse: the step leaves  *)
(* it where gravity and integration alone put it.                          *)
C17_NeitherActive ==
    [][(Handled("step") /\ Dragging) =>
          \A k \in 1..Len(balls) :
             OnlyOverlapsActive(k, ActiveIndex + 1) => balls'[k] = Free(k)]_vars

(* C17 amended: collision resolution skips only the pairs (i, j) whose     *)
(* first ball i is the active one.  The active ball is left where it is    *)
(* even when another ball overlaps it; a non-active ball whose only        *)
(* overlap is with the dragged ball is pushed away from it: it ends        *)
(* farther from the dragged ball's centre when it overlaps by 1 or more,   *)
(* and never nearer.                                                       *)
C17_ActivePushes ==
    [][(Handled("step") /\ Dragging) =>
          LET a == ActiveIndex + 1
          IN  /\ ClearOfWalls(balls[a]) => balls'[a] = balls[a]
              /\ \A k \in 1..Len(balls) :
                    OnlyOverlapsActive(k, a) =>
                       /\ Dist2(balls'[k], balls[a]) >= Dist2(Free(k), balls[a])
                       /\ Dist2(Free(k), balls[a]) <
                             (balls[k].radius + balls[a].radius - Px(1))
                                * (balls[k].radius + balls[a].radius - Px(1))
                          => /\ Dist2(balls'[k], balls[a]) > Dist2(Free(k), balls[a])
                             /\ balls'[k].velocity # Free(k).velocity]_vars

C17_Witness ==
    /\ last.ev = "step"
    /\ events = 1
    /\ Dragging
    /\ balls[ActiveIndex + 1].point = [x |-> Px(300), y |-> Px(300)]
    /\ \E k \in 1..Len(balls) :
          /\ k # ActiveIndex + 1
          /\ balls[k].radius = Px(10)
          /\ balls[k].point.x > Px(320)
          /\ balls[k].point.x < Px(330)
          /\ balls[k].velocity.x > 0
          /\ balls[k].velocity.x < Px(3)

(* C18: in every reachable state the ball list is sorted by radius,        *)
(* largest first (non-increasing).                                         *)
C18_SortedBySize ==
    \A k \in 1..(Len(balls) - 1) : balls[k].radius >= balls[k + 1].radius

C18_Witness ==
    /\ last.ev = "key_space"
    /\ spawned.stage = 1
    /\ Len(balls) = last.len + 1
    /\ balls[Len(balls)].id # spawned.id
    /\ \E k \in 1..(Len(balls) - 1) : balls[k].radius > balls[k + 1].radius

(* C19: the gravity phase of step adds exactly 0.5 to velocity.y of a      *)
(* non-active ball if and only if position.y + radius < height at the      *)
(* start of the step; a ball with its bottom edge at or below the floor    *)
(* and the active ball get nothing, and velocity.x and the position are    *)
(* not touched by this phase.  Seen from outside: an isolated non-active   *)
(* ball in the air ends the step with velocity.y + 0.5, and an isolated    *)
(* ball at rest on the floor stays at rest.                                *)
C19_GravityPhase ==
    [][Handled("step") =>
          LET g == apply_gravity(balls, active_ball)
          IN  /\ Len(g) = Len(balls)
              /\ \A k \in 1..Len(balls) :
                    /\ g[k].point = balls[k].point
                    /\ g[k].radius = balls[k].radius
                    /\ g[k].velocity.x = balls[k].velocity.x
                    /\ g[k].velocity.y =
                          balls[k].velocity.y +
                             (IF NotActive(k) /\ balls[k].point.y + balls[k].radius < height
                              THEN Px(1) \div 2 ELSE 0)
                    /\ (/\ NotActive(k) /\ Isolated(k)
                        /\ ClearOfWalls(balls[k]) /\ ClearOfWalls(Free(k))) =>
                          /\ balls'[k].velocity.y = balls[k].velocity.y + Px(1) \div 2
                          /\ balls'[k].velocity.x = balls[k].velocity.x
                    /\ (/\ NotActive(k) /\ Isolated(k)
                        /\ balls[k].point.y + balls[k].radius = height
                        /\ balls[k].velocity = [x |-> 0, y |-> 0]
                        /\ balls[k].point.x - balls[k].radius >= 0
                        /\ balls[k].point.x + balls[k].radius < width) =>
                          balls'[k] = balls[k]]_vars

C19_Witness ==
    /\ last.ev = "step"
    /\ events = 1
    /\ Len(balls) = 2
    /\ \E k \in 1..2 :
          /\ Isolated(k)
          /\ balls[k].point.y + balls[k].radius = height
          /\ balls[k].velocity = [x |-> 0, y |-> 0]
    /\ \E k \in 1..2 :
          /\ balls[k].point.y + balls[k].radius < height
          /\ balls[k].velocity = [x |-> 0, y |-> Px(1) \div 2]

(* Two balls overlap when their centres are no farther apart than the sum  *)
(* of their radii.                                                         *)
Overlapping ==
    \E j \in 1..Len(balls), k \in 1..Len(balls) :
       /\ j < k
       /\ Dist2(balls[j], balls[k]) <=
             (balls[j].radius + balls[k].radius) * (balls[j].radius + balls[k].radius)

(* C20: from any state with overlapping non-active balls, with no further  *)
(* input, repeated step eventually reaches a state in which no two balls   *)
(* overlap.                                                                *)
C20_Converges == Overlapping ~> ~Overlapping

====
